---- MODULE Spec2Model ----
(***************************************************************************)
(* AutoCheckin-Next (src-tauri): the minute scheduler, the configuration   *)
(* commands, the task executor and the opportunity scanner.                *)
(*                                                                         *)
(* Text is modelled as a sequence of one-character strings, so that        *)
(* formatting, substring search, trimming and truncation are computed.     *)
(* A CJK character is written as its pinyin ("cheng", "gong" for U+6210,   *)
(* U+529F), and still counts as one character.  Wall-clock time is in      *)
(* whole seconds since local midnight.                                     *)
(***************************************************************************)
EXTENDS Integers, Sequences, FiniteSets, TLC

\* ---------------------------------------------------------------- bounds
MaxTicks == 2
MaxTasks == 2
MaxCmds == 1
MaxWork == 1
MaxCards == 2
MaxCalls == 2
MaxScripts == 2

\* ------------------------------------------------------ program constants
SleepSecs == 60
MaxErrChars == 50
\* 0.00015 degree, in units of 1e-7 degree
JitterOffset == 1500

VARIABLES
    now,        \* wall clock, seconds since local midnight
    schedPc,    \* position of start_scheduler: "tick", "sleep" or "panicked"
    tickNo,     \* number of ticks started so far
    tick,       \* what the latest tick read, matched and dispatched
    file,       \* config.json on disk
    state,      \* ConfigState: the AppConfig behind the Mutex
    cmds,       \* number of configuration commands handled so far
    lastCmd,    \* the latest command: name, result, the tick count when it
                \* ran, and the configuration the latest Ok command left
    execs,      \* in-flight TaskExecutor::execute calls, by <<tick, index>>
    env,        \* what the remote services can answer in this run
    scanIn,     \* input of a stand-alone get_active_tasks evaluation
    scanOut,    \* its result
    calls       \* stand-alone calls made so far: function, input, outcome

vars == <<now, schedPc, tickNo, tick, file, state, cmds, lastCmd, execs, env,
          scanIn, scanOut, calls>>

\* ------------------------------------------------------------------ text
RECURSIVE Rep(_, _)
Rep(c, n) == IF n = 0 THEN <<>> ELSE <<c>> \o Rep(c, n - 1)

\* str::contains
Contains(s, p) ==
    \E i \in 0..(Len(s) - Len(p)) :
        \A j \in 1..Len(p) : s[i + j] = p[j]

IsSpace(c) == c \in {" ", "\n", "\t"}

\* str::trim
Trim(s) ==
    IF \A i \in 1..Len(s) : IsSpace(s[i]) THEN <<>>
    ELSE LET lo == CHOOSE i \in 1..Len(s) :
                       /\ ~IsSpace(s[i])
                       /\ \A k \in 1..(i - 1) : IsSpace(s[k])
             hi == CHOOSE i \in 1..Len(s) :
                       /\ ~IsSpace(s[i])
                       /\ \A k \in (i + 1)..Len(s) : IsSpace(s[k])
         IN  SubSeq(s, lo, hi)

\* chars().take(n).collect()
Take(s, n) == IF Len(s) <= n THEN s ELSE SubSeq(s, 1, n)

DigitChar(d) ==
    CASE d = 0 -> "0" [] d = 1 -> "1" [] d = 2 -> "2" [] d = 3 -> "3"
      [] d = 4 -> "4" [] d = 5 -> "5" [] d = 6 -> "6" [] d = 7 -> "7"
      [] d = 8 -> "8" [] d = 9 -> "9"

Pad2(n) == <<DigitChar(n \div 10), DigitChar(n % 10)>>

\* now.format("%H:%M").to_string()
FormatHM(t) == Pad2((t \div 3600) % 24) \o <<":">> \o Pad2((t \div 60) % 60)

\* ------------------------------------------------------------ config.rs
\* Task ids are text too: <<>> is the empty id
Task(id, name, time, class_id, enable) ==
    [id |-> id, name |-> name, time |-> time, class_id |-> class_id,
     enable |-> enable]

WeComConfig(enable) == [enable |-> enable, touser |-> "@all"]

AppConfig(tasks, wecomEnable) ==
    [tasks |-> tasks,
     global |-> [wecom |-> WeComConfig(wecomEnable), debug |-> FALSE]]

\* impl Default for AppConfig
DefaultConfig == AppConfig(<<>>, FALSE)

\* A JSON object is a sequence of <<key, value>> pairs.
HasField(j, k) == \E i \in DOMAIN j : j[i][1] = k
Field(j, k) == j[CHOOSE i \in DOMAIN j : j[i][1] = k][2]

\* serde_json::to_string_pretty(config)
TaskToJson(t) ==
    << <<"id", t.id>>, <<"name", t.name>>, <<"time", t.time>>,
       <<"class_id", t.class_id>>, <<"enable", t.enable>> >>

WeComToJson(w) == << <<"enable", w.enable>>, <<"touser", w.touser>> >>

ToJson(c) ==
    << <<"tasks", [i \in DOMAIN c.tasks |-> TaskToJson(c.tasks[i])]>>,
       <<"global", << <<"wecom", WeComToJson(c.global.wecom)>>,
                      <<"debug", c.global.debug>> >> >> >>

\* serde_json::from_str::<AppConfig>: every field is required
JsonIsTask(j) ==
    \A k \in {"id", "name", "time", "class_id", "enable"} : HasField(j, k)

JsonIsConfig(j) ==
    /\ HasField(j, "tasks")
    /\ HasField(j, "global")
    /\ \A i \in DOMAIN Field(j, "tasks") : JsonIsTask(Field(j, "tasks")[i])
    /\ HasField(Field(j, "global"), "wecom")
    /\ HasField(Field(j, "global"), "debug")
    /\ HasField(Field(Field(j, "global"), "wecom"), "enable")
    /\ HasField(Field(Field(j, "global"), "wecom"), "touser")

TaskFromJson(j) ==
    [id |-> Field(j, "id"), name |-> Field(j, "name"),
     time |-> Field(j, "time"), class_id |-> Field(j, "class_id"),
     enable |-> Field(j, "enable")]

FromJson(j) ==
    LET ts == Field(j, "tasks")
        g  == Field(j, "global")
        w  == Field(g, "wecom")
    IN  [tasks |-> [i \in DOMAIN ts |-> TaskFromJson(ts[i])],
         global |-> [wecom |-> [enable |-> Field(w, "enable"),
                                touser |-> Field(w, "touser")],
                     debug |-> Field(g, "debug")]]

\* config.json: absent, or present with some content
NoFile == [exists |-> FALSE, content |-> <<>>]
FileOf(content) == [exists |-> TRUE, content |-> content]

\* A scheduler that keeps the configuration of its previous tick.
load_config_cached(f) ==
    IF tickNo = 0
    THEN IF f.exists /\ JsonIsConfig(f.content)
         THEN FromJson(f.content) ELSE DefaultConfig
    ELSE tick.cfg

\* load_config: the default when the file is absent, unreadable or malformed.
\* (get_config_path is taken to resolve: the setup hook of run() has already
\* called load_config, and the path depends on the process environment only.)
load_config(f) ==
    IF f.exists
    THEN IF JsonIsConfig(f.content) THEN FromJson(f.content) ELSE DefaultConfig
    ELSE DefaultConfig

\* save_config: Ok writes the whole file; Err (create_dir_all or fs::write
\* failed) is modelled as leaving the previous file in place
save_config(f, config, ok) == IF ok THEN FileOf(ToJson(config)) ELSE f

\* -------------------------------------------------------------- task.rs
\* A course page is a sequence of top-level div.card-body blocks; a block
\* has its own markup and nested div.card-body blocks.  Markup is a
\* sequence of tokens <<prefix, digits, suffix>>; the token "yi-qian" is the
\* already-signed marker U+5DF2 U+7B7E.
SignedMark == <<"yi-qian", "", "">>

HasSignedMark(html) == \E i \in DOMAIN html : html[i][1] = "yi-qian"

RECURSIVE Flatten(_)
Flatten(ss) == IF ss = <<>> THEN <<>> ELSE Head(ss) \o Flatten(Tail(ss))

\* ElementRef::html(): the block's outer markup, nested blocks included
CardHtml(card) ==
    card.toks \o Flatten([i \in DOMAIN card.kids |-> card.kids[i].toks])

\* document.select(&card_selector): every div.card-body, nested ones too
SelectedHtml(page) ==
    Flatten([i \in DOMAIN page |->
        <<CardHtml(page[i])>> \o
        [k \in DOMAIN page[i].kids |-> page[i].kids[k].toks]])

\* re1 = punchcard_(\d+), re2 = punch_pwd_frm_(\d+), re3 = punch_gps\((\d+)\)
Re1(tok) == tok[1] = "punchcard_" /\ tok[2] # ""
Re2(tok) == tok[1] = "punch_pwd_frm_" /\ tok[2] # ""
Re3(tok) == tok[1] = "punch_gps(" /\ tok[2] # "" /\ tok[3] = ")"

\* A scan that knows the punchcard_ pattern only.
CapturesCardOnly(html) ==
    {html[i][2] : i \in {n \in DOMAIN html : Re1(html[n])}}

Captures(html) ==
    {html[i][2] : i \in {n \in DOMAIN html :
                            Re1(html[n]) \/ Re2(html[n]) \/ Re3(html[n])}}

\* The scan without the "already signed" test.
ActiveIdsNoSkip(page) ==
    UNION {Captures(SelectedHtml(page)[b]) : b \in DOMAIN SelectedHtml(page)}

\* the loop of get_active_tasks over the selected blocks
ActiveIds(page) ==
    LET blocks == SelectedHtml(page)
    IN  UNION {Captures(blocks[b]) :
                  b \in {n \in DOMAIN blocks : ~HasSignedMark(blocks[n])}}

\* get_active_tasks: Err on a transport failure, else Ok(set of ids)
NetErr == [ok |-> FALSE, page |-> <<>>]
PageOf(page) == [ok |-> TRUE, page |-> page]

get_active_tasks(resp) ==
    IF resp.ok THEN [ok |-> TRUE, ids |-> ActiveIds(resp.page)]
    ELSE [ok |-> FALSE, ids |-> {}]

\* Texts of the sign-in exchange
TxtOkZh     == <<"qian", "dao", "cheng", "gong">>
TxtSuccess  == <<"S", "u", "c", "c", "e", "s", "s">>
TxtChucuo   == <<"chu", "cuo">>
TxtError    == <<"E", "r", "r", "o", "r">>
TxtExpired  == <<" ", "yi", "guo", "qi", "\n">>
TxtSysErr   == <<"xi", "tong">> \o TxtChucuo
TxtLateErr  == Rep("x", MaxErrChars - 2) \o TxtError
TxtSendFail == <<"e", "r", "r", "o", "r", " ", "s", "e", "n", "d">>

\* A sign-in exchange: the request failed in transport (with the error's
\* text), or a response body with this visible text came back.
SendErr(text) == [sent |-> FALSE, text |-> text]
Body(text) == [sent |-> TRUE, text |-> text]

\* perform_sign without the truncation of the failure text.
perform_sign_untruncated(x) ==
    IF ~x.sent THEN [ok |-> FALSE, msg |-> x.text]
    ELSE IF Contains(x.text, <<"cheng", "gong">>) \/ Contains(x.text, TxtSuccess)
         THEN [ok |-> TRUE, msg |-> TxtOkZh]
         ELSE [ok |-> FALSE, msg |-> Trim(x.text)]

\* perform_sign, from the exchange on
perform_sign(x) ==
    IF ~x.sent THEN [ok |-> FALSE, msg |-> x.text]
    ELSE IF Contains(x.text, <<"cheng", "gong">>) \/ Contains(x.text, TxtSuccess)
         THEN [ok |-> TRUE, msg |-> TxtOkZh]
         ELSE [ok |-> FALSE, msg |-> Take(Trim(x.text), MaxErrChars)]

\* Coordinates are fixed-point, in units of 1e-7 degree: a Location field is
\* a decimal string of up to 7 decimals, or a string that does not parse.
Coord(v) == [valid |-> TRUE, v |-> v]
BadCoord == [valid |-> FALSE, v |-> 0]

\* lat.parse::<f64>().unwrap_or(0.0)
ParseCoord(c) == IF c.valid THEN c.v ELSE 0

RECURSIVE IntDigits(_)
IntDigits(n) ==
    IF n < 10 THEN <<DigitChar(n)>>
    ELSE IntDigits(n \div 10) \o <<DigitChar(n % 10)>>

RECURSIVE FracDigits(_, _)
FracDigits(n, k) ==
    IF k = 0 THEN <<>> ELSE FracDigits(n \div 10, k - 1) \o <<DigitChar(n % 10)>>

Abs(n) == IF n < 0 THEN -n ELSE n

\* format!("{:.6}", x) of the value x = s * 1e-7: rounded to the nearest
\* 1e-6; on a decimal tie the binary value of x lies on one side or the
\* other, which `up` chooses.  The sign is that of x, also when it rounds
\* to zero.
Format6(s, up) ==
    LET a == Abs(s)
        q == a \div 10
        r == a % 10
        m == IF r > 5 \/ (r = 5 /\ up) THEN q + 1 ELSE q
    IN  (IF s < 0 THEN <<"-">> ELSE <<>>)
        \o IntDigits(m \div 1000000) \o <<".">> \o FracDigits(m % 1000000, 6)

\* A jitter of twice the offset.
random_coordinate_wide(lat, lng, r_lat, r_lng, up_lat, up_lng) ==
    LET lat_val == ParseCoord(lat)
        lng_val == ParseCoord(lng)
    IN  <<Format6(lat_val + 2 * r_lat, up_lat),
          Format6(lng_val + 2 * r_lng, up_lng)>>

\* random_coordinate: r_lat and r_lng are the two draws
\* (rand::random::<f64>() * 2.0 - 1.0) * offset, in [-JitterOffset, JitterOffset)
random_coordinate(lat, lng, r_lat, r_lng, up_lat, up_lng) ==
    LET lat_val == ParseCoord(lat)
        lng_val == ParseCoord(lng)
    IN  <<Format6(lat_val + r_lat, up_lat), Format6(lng_val + r_lng, up_lng)>>

\* A title chosen by success alone.
NotifyTitleBySuccess(name, result) ==
    IF result.ok THEN <<name, " Check-in Result">>
    ELSE <<name, " Check-in Failed">>

\* execute: the title of the notification for one outcome
NotifyTitle(name, result) ==
    LET msg == result.msg
        success == result.ok /\ (Contains(msg, <<"cheng", "gong">>)
                                 \/ Contains(msg, TxtSuccess))
    IN  IF success \/ Contains(msg, TxtChucuo) \/ Contains(msg, TxtError)
        THEN <<name, " Check-in Result">>
        ELSE <<name, " Check-in Failed">>

\* A notifier that asks for a token before it looks at the enable flag.
send_wecom_notification_eager(wecom, svc) ==
    IF svc.token # "tok" THEN [ok |-> ~wecom.enable, http |-> <<"GET gettoken">>]
    ELSE IF ~wecom.enable THEN [ok |-> TRUE, http |-> <<"GET gettoken">>]
    ELSE [ok |-> svc.send = "0",
          http |-> <<"GET gettoken", "POST message/send">>]

\* A notifier that keeps the token an earlier call obtained.
send_wecom_notification_cached(wecom, svc) ==
    IF ~wecom.enable THEN [ok |-> TRUE, http |-> <<>>]
    ELSE IF \E i \in DOMAIN calls :
                /\ calls[i].fn = "send_wecom_notification"
                /\ "POST message/send" \in
                       {calls[i].out.http[k] : k \in DOMAIN calls[i].out.http}
         THEN [ok |-> svc.send = "0", http |-> <<"POST message/send">>]
    ELSE IF svc.token # "tok" THEN [ok |-> FALSE, http |-> <<"GET gettoken">>]
    ELSE [ok |-> svc.send = "0",
          http |-> <<"GET gettoken", "POST message/send">>]

\* send_wecom_notification against a service behaving as `svc`.
\* svc.token: "neterr" (no JSON response), "none" (no access_token field),
\* "num" (access_token is not a string), "tok" (a token string);
\* svc.send: "neterr", "0" (errcode 0), "1" (errcode 1), "absent" (no
\* errcode field), "str0" (errcode is the string "0")
send_wecom_notification(wecom, svc) ==
    IF ~wecom.enable THEN [ok |-> TRUE, http |-> <<>>]
    ELSE IF svc.token # "tok" THEN [ok |-> FALSE, http |-> <<"GET gettoken">>]
    ELSE [ok |-> svc.send = "0",
          http |-> <<"GET gettoken", "POST message/send">>]

\* -------------------------------------------------------------- auth.rs
\* A URL is a sequence of pieces in which every '?' is a piece of its own.
BaseQrUrl == <<"https://login.b8n.cn/qr/weixin/student/2">>
PollUrl == BaseQrUrl \o <<"?", "op=checklogin">>
UidLoginPrefix == <<"https://bj.k8n.cn/student/uidlogin", "?">>
QrLinkPrefix == <<"http://login.b8n.cn/weixin/login/student/2", "?">>

\* AuthHandler::new: a client with a cookie store of its own, empty
AuthHandlerNew == [jar |-> {}]

\* An inline script of the login page: whether its text contains
\* "login.b8n.cn", and the absolute URLs in it, in order; a URL is given by
\* its query parameters, a sequence of <<name, value>>.
Script(mentions, urls) == [mentions |-> mentions, urls |-> urls]

\* re_param = [?&](sess|tm|sign)=([^&]+), inserted into a HashMap: of each
\* name the last non-empty value
ParamNames == {"sess", "tm", "sign"}
ParamsOf(url) ==
    LET hits == {i \in DOMAIN url : url[i][1] \in ParamNames /\ url[i][2] # ""}
        found == {url[i][1] : i \in hits}
    IN  [k \in found |->
            url[CHOOSE i \in hits :
                    /\ url[i][1] = k
                    /\ \A j \in hits : url[j][1] = k => j <= i][2]]

\* extract_qr_params: the first script that contains the login host and an
\* absolute URL decides; the parameters of that script's first URL are
\* returned, however many were found
extract_qr_params(page) ==
    LET usable == {i \in DOMAIN page :
                      page[i].mentions /\ page[i].urls # <<>>}
    IN  IF usable = {} THEN [ok |-> FALSE, params |-> <<>>]
        ELSE LET first == CHOOSE i \in usable : \A j \in usable : i <= j
             IN  [ok |-> TRUE, params |-> ParamsOf(page[first].urls[1])]

\* get_qr_code: `fetch` is the exchange with the login entry URL, `qrOk`
\* whether QrCode::new can encode the link.  The image is given by the link
\* it encodes.
NoQr == [ok |-> FALSE, err |-> "", image |-> <<>>, check |-> <<>>]
get_qr_code(fetch, qrOk) ==
    IF ~fetch.sent THEN [NoQr EXCEPT !.err = "network"]
    ELSE LET params == extract_qr_params(fetch.page)
         IN  IF ~params.ok
             THEN [NoQr EXCEPT !.err = "Could not extract QR params"]
             ELSE IF ~qrOk THEN [NoQr EXCEPT !.err = "qr"]
             ELSE [ok |-> TRUE, err |-> "",
                   image |-> <<QrLinkPrefix, params.params>>,
                   check |-> BaseQrUrl]

\* A field of the status-poll JSON object
Absent == [kind |-> "absent", int |-> 0, str |-> <<>>]
JNull == [kind |-> "null", int |-> 0, str |-> <<>>]
JInt(n) == [kind |-> "int", int |-> n, str |-> <<>>]
JStr(t) == [kind |-> "str", int |-> 0, str |-> t]

\* redirect_url.split('?').nth(1).unwrap_or("")
SplitNth1(url) ==
    LET marks == {i \in DOMAIN url : url[i] = "?"}
    IN  IF marks = {} THEN <<>>
        ELSE LET m1 == CHOOSE i \in marks : \A j \in marks : i <= j
                 rest == {i \in marks : i > m1}
                 m2 == IF rest = {} THEN Len(url) + 1
                       ELSE CHOOSE i \in rest : \A j \in rest : i <= j
             IN  SubSeq(url, m1 + 1, m2 - 1)

Get(url) == [method |-> "GET", url |-> url]

\* check_login: `poll` is the status exchange, `completion` the exchange
\* with the uid-login URL (the cookie it sets lands in the client's jar).
\* res is "some", "none", "err" or "panic".
PollOut(res) ==
    [res |-> res, session |-> <<"", "">>, http |-> <<Get(PollUrl)>>,
     jar |-> ""]

\* A check_login that takes any non-zero status for completion.
check_login_nonzero(poll, completion) ==
    IF ~poll.sent \/ ~poll.json THEN PollOut("err")
    ELSE IF poll.status.kind = "int" /\ poll.status.int # 0
              /\ poll.url.kind = "str"
         THEN [res |-> "some",
               session |-> <<"cookie_placeholder", "class_id_placeholder">>,
               http |-> <<Get(PollUrl),
                          Get(UidLoginPrefix \o SplitNth1(poll.url.str))>>,
               jar |-> completion.cookie]
         ELSE PollOut("none")

check_login(poll, completion) ==
    IF ~poll.sent \/ ~poll.json THEN PollOut("err")
    ELSE IF poll.status.kind = "int" /\ poll.status.int = 1
              /\ poll.url.kind # "absent"
         THEN IF poll.url.kind # "str" THEN PollOut("panic")
              ELSE LET target == UidLoginPrefix \o SplitNth1(poll.url.str)
                       http == <<Get(PollUrl), Get(target)>>
                   IN  IF ~completion.sent
                       THEN [PollOut("err") EXCEPT !.http = http]
                       ELSE [res |-> "some",
                             session |-> <<"cookie_placeholder",
                                           "class_id_placeholder">>,
                             http |-> http,
                             jar |-> completion.cookie]
         ELSE PollOut("none")

\* ---------------------------------------------------------------- inputs
TimeA   == <<"0", "8", ":", "0", "0">>
TimeB   == <<"0", "8", ":", "0", "1">>
TimeRaw == <<"8", ":", "0", "0">>

TaskA1   == Task(<<"a">>, "n1", TimeA, "k1", TRUE)
TaskA2   == Task(<<"a">>, "n2", TimeB, "k1", TRUE)
TaskB1   == Task(<<"b">>, "n2", TimeA, "k2", TRUE)
TaskBOff == Task(<<"b">>, "n2", TimeA, "k2", FALSE)
TaskRaw  == Task(<<"c">>, "n1", TimeRaw, "k1", TRUE)
TaskNew  == Task(<<>>, "n1", TimeB, "k2", TRUE)

TaskInputs == {TaskA2, TaskB1, TaskBOff, TaskNew}
IdInputs == {<<"a">>, <<"b">>}
ConfigInputs ==
    {AppConfig(<<>>, TRUE), AppConfig(<<TaskA1, TaskB1>>, TRUE),
     AppConfig(<<TaskA2, TaskA2>>, FALSE)}

\* uuid::Uuid::new_v4().to_string(): an id no task of the list has yet
\* (which one is immaterial: the first unused of a pool)
Uuid(n) == <<"u", DigitChar(n)>>
NewUuid(config) ==
    Uuid(CHOOSE n \in 1..(MaxTasks + 1) :
             /\ \A i \in DOMAIN config.tasks : config.tasks[i].id # Uuid(n)
             /\ \A m \in 1..(n - 1) :
                    \E i \in DOMAIN config.tasks : config.tasks[i].id = Uuid(m))

\* the scheduler starts at 08:00:59
StartTimes == {8 * 3600 + 59}

Card(toks, kids) == [toks |-> toks, kids |-> kids]
Open42   == <<"punchcard_", "42", "">>
Gps42    == <<"punch_gps(", "42", ")">>
Pwd7     == <<"punch_pwd_frm_", "7", "">>
GpsOpen  == <<"punch_gps(", "9", "">>

PageNone  == <<>>
PageOne   == <<Card(<<Open42, Gps42>>, <<>>)>>
PageTwo   == <<Card(<<Open42>>, <<>>), Card(<<SignedMark, Gps42>>, <<>>),
               Card(<<Pwd7>>, <<>>)>>
PageDone  == <<Card(<<SignedMark, Open42>>, <<>>)>>

SvcUp     == [token |-> "tok", send |-> "0"]
SvcReject == [token |-> "tok", send |-> "1"]
SvcNoTok  == [token |-> "none", send |-> "0"]
SvcDown   == [token |-> "neterr", send |-> "neterr"]
SvcHalf   == [token |-> "tok", send |-> "neterr"]

\* The answers the portal (per course page) and the notification service can
\* give in a run.
QuietEnv ==
    [pages |-> [k1 |-> {NetErr, PageOf(PageOne)}, k2 |-> {PageOf(PageOne)}],
     sends |-> {Body(TxtOkZh)},
     svcs  |-> {SvcUp}]

FullEnv ==
    [pages |-> [k1 |-> {NetErr, PageOf(PageNone), PageOf(PageOne),
                        PageOf(PageTwo), PageOf(PageDone)},
                k2 |-> {NetErr, PageOf(PageNone), PageOf(PageOne)}],
     sends |-> {Body(TxtOkZh), Body(TxtSysErr), Body(TxtError),
                Body(TxtExpired), SendErr(TxtSendFail)},
     svcs  |-> {SvcUp, SvcDown}]

\* ------------------------------------------------------------- lib.rs
Position(tasks, id) ==
    IF \E i \in DOMAIN tasks : tasks[i].id = id
    THEN CHOOSE i \in DOMAIN tasks :
             /\ tasks[i].id = id
             /\ \A k \in 1..(i - 1) : tasks[k].id # id
    ELSE 0

Remove(tasks, idx) ==
    [i \in 1..(Len(tasks) - 1) |-> IF i < idx THEN tasks[i] ELSE tasks[i + 1]]

\* The record of a command that returned: `config` is the in-memory
\* configuration it built; an Ok command is the latest one "seen to succeed".
Done(name, ok, config) ==
    [name |-> name, ok |-> ok, at |-> tickNo,
     anyOk |-> ok \/ lastCmd.anyOk,
     okCfg |-> IF ok THEN config ELSE lastCmd.okCfg]

\* update_config: save first, then replace the in-memory configuration
update_config(new_config, saveOk) ==
    /\ cmds < MaxCmds
    /\ cmds' = cmds + 1
    /\ file' = save_config(file, new_config, saveOk)
    /\ state' = IF saveOk THEN new_config ELSE state
    /\ lastCmd' = Done("update_config", saveOk, state')
    /\ UNCHANGED <<now, schedPc, tickNo, tick, execs, env, scanIn, scanOut, calls>>

\* add_task: push onto the in-memory list, then save
add_task(task, saveOk) ==
    /\ cmds < MaxCmds
    /\ Len(state.tasks) < MaxTasks
    /\ LET t == IF task.id = <<>> THEN [task EXCEPT !.id = NewUuid(state)] ELSE task
           config == [state EXCEPT !.tasks = Append(@, t)]
       IN  /\ state' = config
           /\ file' = save_config(file, config, saveOk)
           /\ lastCmd' = Done("add_task", saveOk, config)
    /\ cmds' = cmds + 1
    /\ UNCHANGED <<now, schedPc, tickNo, tick, execs, env, scanIn, scanOut, calls>>

\* update_task: replace the first task with this id, then save
update_task(task, saveOk) ==
    /\ cmds < MaxCmds
    /\ LET idx == Position(state.tasks, task.id)
       IN  IF idx # 0
           THEN LET config == [state EXCEPT !.tasks[idx] = task]
                IN  /\ state' = config
                    /\ file' = save_config(file, config, saveOk)
                    /\ lastCmd' = Done("update_task", saveOk, config)
           ELSE /\ lastCmd' = Done("update_task", FALSE, state)
                /\ UNCHANGED <<state, file>>
    /\ cmds' = cmds + 1
    /\ UNCHANGED <<now, schedPc, tickNo, tick, execs, env, scanIn, scanOut, calls>>

\* delete_task: remove the first task with this id, then save
delete_task(task_id, saveOk) ==
    /\ cmds < MaxCmds
    /\ LET idx == Position(state.tasks, task_id)
       IN  IF idx # 0
           THEN LET config == [state EXCEPT !.tasks = Remove(@, idx)]
                IN  /\ state' = config
                    /\ file' = save_config(file, config, saveOk)
                    /\ lastCmd' = Done("delete_task", saveOk, config)
           ELSE /\ lastCmd' = Done("delete_task", FALSE, state)
                /\ UNCHANGED <<state, file>>
    /\ cmds' = cmds + 1
    /\ UNCHANGED <<now, schedPc, tickNo, tick, execs, env, scanIn, scanOut, calls>>

\* -------------------------------------------------------- scheduler.rs
\* .filter(|t| t.enable && t.time == current_time)
RECURSIVE TasksToRun(_, _)
TasksToRun(tasks, current_time) ==
    IF tasks = <<>> THEN <<>>
    ELSE LET t == Head(tasks)
             rest == TasksToRun(Tail(tasks), current_time)
         IN  IF t.enable /\ t.time = current_time THEN <<t>> \o rest ELSE rest

\* TaskExecutor::new: Client::builder().user_agent(UA).build().unwrap()
\* panics when the client cannot be built
TaskExecutorNewPanics(clientOk) == ~clientOk

\* A freshly spawned closure holding its task and the shared executor
Spawned(task, wecom) ==
    [task |-> task, wecom |-> wecom, pc |-> "start", scan |-> "none",
     ids |-> {}, todo |-> {}, last |-> [ok |-> FALSE, msg |-> <<>>],
     subs |-> <<>>, notifs |-> <<>>, log |-> <<>>]

NoTick ==
    [start |-> -1, prev |-> -1, seen |-> 0, time |-> <<>>,
     cfg |-> DefaultConfig, dispatched |-> <<>>]

\* One pass of the loop body of start_scheduler, up to the sleep.  `work` is
\* the time the pass takes; `clientOk` is whether Client::builder().build()
\* in TaskExecutor::new succeeds (it is unwrapped on the scheduler's task).
SchedulerTick ==
    /\ schedPc = "tick"
    /\ tickNo < MaxTicks
    /\ \E work \in 0..MaxWork, clientOk \in BOOLEAN :
         LET current_time == FormatHM(now)
             config == load_config(file)
             tasks_to_run == TasksToRun(config.tasks, current_time)
             n == tickNo + 1
             panics == tasks_to_run # <<>> /\ TaskExecutorNewPanics(clientOk)
             launched == IF panics THEN <<>> ELSE tasks_to_run
         IN  /\ tickNo' = n
             /\ now' = now + work
             /\ schedPc' = IF panics THEN "panicked" ELSE "sleep"
             /\ tick' = [start |-> now, prev |-> tick.start, seen |-> cmds,
                         time |-> current_time, cfg |-> config,
                         dispatched |-> launched]
             /\ execs' = [k \in DOMAIN execs \cup
                                  {<<n, i>> : i \in DOMAIN launched} |->
                            IF k \in DOMAIN execs THEN execs[k]
                            ELSE Spawned(launched[k[2]], config.global.wecom)]
    /\ UNCHANGED <<file, state, cmds, lastCmd, env, scanIn, scanOut, calls>>

\* A loop that joins the executions it spawned before it sleeps on.
SchedulerSleepJoined ==
    /\ schedPc = "sleep"
    /\ \A k \in DOMAIN execs : execs[k].pc = "done"
    /\ schedPc' = "tick"
    /\ now' = now + SleepSecs
    /\ UNCHANGED <<tickNo, tick, file, state, cmds, lastCmd, execs, env,
                   scanIn, scanOut, calls>>

\* sleep(Duration::from_secs(60)).await returns
SchedulerSleep ==
    /\ schedPc = "sleep"
    /\ schedPc' = "tick"
    /\ now' = now + SleepSecs
    /\ UNCHANGED <<tickNo, tick, file, state, cmds, lastCmd, execs, env,
                   scanIn, scanOut, calls>>

\* ------------------------------------------------- TaskExecutor::execute
\* A scan whose failure is reported through the notifier.
ExecScanReported(e) ==
    /\ e \in DOMAIN execs
    /\ execs[e].pc = "start"
    /\ \E resp \in env.pages[execs[e].task.class_id] :
         LET x == execs[e]
             r == get_active_tasks(resp)
         IN  execs' = [execs EXCEPT ![e] =
                 IF ~x.task.enable THEN [x EXCEPT !.pc = "done"]
                 ELSE IF ~r.ok
                      THEN [x EXCEPT !.pc = "done", !.scan = "err",
                                     !.notifs = <<[title |-> <<x.task.name,
                                                       " Check-in Failed">>,
                                                   ok |-> TRUE,
                                                   http |-> <<>>]>>]
                 ELSE IF r.ids = {}
                      THEN [x EXCEPT !.pc = "done", !.scan = "ok"]
                      ELSE [x EXCEPT !.pc = "loop", !.scan = "ok",
                                     !.ids = r.ids, !.todo = r.ids]]
    /\ UNCHANGED <<now, schedPc, tickNo, tick, file, state, cmds, lastCmd,
                   env, scanIn, scanOut, calls>>

\* execute up to the loop: the enable test and the scan
ExecScan(e) ==
    /\ e \in DOMAIN execs
    /\ execs[e].pc = "start"
    /\ \E resp \in env.pages[execs[e].task.class_id] :
         LET x == execs[e]
             r == get_active_tasks(resp)
         IN  execs' = [execs EXCEPT ![e] =
                 IF ~x.task.enable THEN [x EXCEPT !.pc = "done"]
                 ELSE IF ~r.ok THEN [x EXCEPT !.pc = "done", !.scan = "err"]
                 ELSE IF r.ids = {}
                      THEN [x EXCEPT !.pc = "done", !.scan = "ok"]
                      ELSE [x EXCEPT !.pc = "loop", !.scan = "ok",
                                     !.ids = r.ids, !.todo = r.ids]]
    /\ UNCHANGED <<now, schedPc, tickNo, tick, file, state, cmds, lastCmd,
                   env, scanIn, scanOut, calls>>

\* A loop that returns from execute on the first failed submission.
ExecSubmitOrReturn(e) ==
    /\ e \in DOMAIN execs
    /\ execs[e].pc = "loop"
    /\ \E sign_id \in execs[e].todo, x \in env.sends :
         LET result == perform_sign(x)
         IN  execs' = [execs EXCEPT ![e] =
                 [@ EXCEPT !.pc = IF result.ok THEN "notify" ELSE "done",
                           !.todo = @ \ {sign_id},
                           !.last = result,
                           !.subs = Append(@, [id |-> sign_id,
                                               ok |-> result.ok,
                                               msg |-> result.msg])]]
    /\ UNCHANGED <<now, schedPc, tickNo, tick, file, state, cmds, lastCmd,
                   env, scanIn, scanOut, calls>>

\* What an execution did, in order: thread::sleep, random_coordinate (the
\* draw is numbered), perform_sign (with the number of the draw whose
\* coordinates it sends), send_wecom_notification.
Event(ev, id, draw) == [ev |-> ev, id |-> id, draw |-> draw]
Draws(x) == Cardinality({n \in DOMAIN x.log : x.log[n].ev = "jitter"})

\* A loop that draws the coordinates once and sends them for every id.
ExecSubmitOneJitter(e) ==
    /\ e \in DOMAIN execs
    /\ execs[e].pc = "loop"
    /\ \E sign_id \in execs[e].todo, x \in env.sends :
         LET result == perform_sign(x)
             first == Draws(execs[e]) = 0
         IN  execs' = [execs EXCEPT ![e] =
                 [@ EXCEPT !.pc = "notify",
                           !.todo = @ \ {sign_id},
                           !.last = result,
                           !.subs = Append(@, [id |-> sign_id,
                                               ok |-> result.ok,
                                               msg |-> result.msg]),
                           !.log = @ \o <<Event("sleep", sign_id, 0)>>
                                     \o (IF first
                                         THEN <<Event("jitter", sign_id, 1)>>
                                         ELSE <<>>)
                                     \o <<Event("submit", sign_id, 1)>>]]
    /\ UNCHANGED <<now, schedPc, tickNo, tick, file, state, cmds, lastCmd,
                   env, scanIn, scanOut, calls>>

\* one iteration of the loop, first half: pacing sleep, jitter, perform_sign
ExecSubmit(e) ==
    /\ e \in DOMAIN execs
    /\ execs[e].pc = "loop"
    /\ \E sign_id \in execs[e].todo, x \in env.sends :
         LET result == perform_sign(x)
             draw == Draws(execs[e]) + 1
         IN  execs' = [execs EXCEPT ![e] =
                 [@ EXCEPT !.pc = "notify",
                           !.todo = @ \ {sign_id},
                           !.last = result,
                           !.subs = Append(@, [id |-> sign_id,
                                               ok |-> result.ok,
                                               msg |-> result.msg]),
                           !.log = @ \o <<Event("sleep", sign_id, 0),
                                          Event("jitter", sign_id, draw),
                                          Event("submit", sign_id, draw)>>]]
    /\ UNCHANGED <<now, schedPc, tickNo, tick, file, state, cmds, lastCmd,
                   env, scanIn, scanOut, calls>>

\* A loop that notifies of successful submissions only.
ExecNotifySuccessOnly(e) ==
    /\ e \in DOMAIN execs
    /\ execs[e].pc = "notify"
    /\ \E svc \in env.svcs :
         LET x == execs[e]
             sent == send_wecom_notification(x.wecom, svc)
         IN  execs' = [execs EXCEPT ![e] =
                 [x EXCEPT !.pc = IF x.todo = {} THEN "done" ELSE "loop",
                           !.notifs = IF x.last.ok
                                      THEN Append(@,
                                          [title |-> NotifyTitle(x.task.name,
                                                                 x.last),
                                           ok |-> sent.ok,
                                           http |-> sent.http])
                                      ELSE @]]
    /\ UNCHANGED <<now, schedPc, tickNo, tick, file, state, cmds, lastCmd,
                   env, scanIn, scanOut, calls>>

\* A notification sent with the notifier settings of the ConfigState.
ExecNotifyLiveConfig(e) ==
    /\ e \in DOMAIN execs
    /\ execs[e].pc = "notify"
    /\ \E svc \in env.svcs :
         LET x == execs[e]
             sent == send_wecom_notification(state.global.wecom, svc)
         IN  execs' = [execs EXCEPT ![e] =
                 [x EXCEPT !.pc = IF x.todo = {} THEN "done" ELSE "loop",
                           !.wecom = state.global.wecom,
                           !.notifs = Append(@,
                               [title |-> NotifyTitle(x.task.name, x.last),
                                ok |-> sent.ok, http |-> sent.http]),
                           !.log = Append(@,
                               Event("notify", x.subs[Len(x.subs)].id, 0))]]
    /\ UNCHANGED <<now, schedPc, tickNo, tick, file, state, cmds, lastCmd,
                   env, scanIn, scanOut, calls>>

\* second half: the notification, whose result is dropped
ExecNotify(e) ==
    /\ e \in DOMAIN execs
    /\ execs[e].pc = "notify"
    /\ \E svc \in env.svcs :
         LET x == execs[e]
             sent == send_wecom_notification(x.wecom, svc)
         IN  execs' = [execs EXCEPT ![e] =
                 [x EXCEPT !.pc = IF x.todo = {} THEN "done" ELSE "loop",
                           !.notifs = Append(@,
                               [title |-> NotifyTitle(x.task.name, x.last),
                                ok |-> sent.ok, http |-> sent.http]),
                           !.log = Append(@,
                               Event("notify", x.subs[Len(x.subs)].id, 0))]]
    /\ UNCHANGED <<now, schedPc, tickNo, tick, file, state, cmds, lastCmd,
                   env, scanIn, scanOut, calls>>

\* execute has returned: the closure ends and its thread is released
ExecReturn(e) ==
    /\ e \in DOMAIN execs
    /\ execs[e].pc = "done"
    /\ execs' = [k \in DOMAIN execs \ {e} |-> execs[k]]
    /\ UNCHANGED <<now, schedPc, tickNo, tick, file, state, cmds, lastCmd,
                   env, scanIn, scanOut, calls>>

ExecKeys == (1..MaxTicks) \X (1..(MaxTasks + 1))

\* --------------------------------------------------------- specification
\* run(): the setup hook loads the configuration into ConfigState and spawns
\* the scheduler
InitFiles ==
    {NoFile, FileOf(<<>>), FileOf(<< <<"tasks", <<>>>> >>),
     FileOf(ToJson(AppConfig(<<TaskRaw, TaskBOff>>, TRUE)))}

Init ==
    /\ now \in StartTimes
    /\ schedPc = "tick"
    /\ tickNo = 0
    /\ tick = NoTick
    /\ file \in InitFiles
    /\ state = load_config(file)
    /\ cmds = 0
    /\ lastCmd = [name |-> "none", ok |-> FALSE, at |-> 0, anyOk |-> FALSE,
                  okCfg |-> DefaultConfig]
    /\ execs = <<>>
    /\ env = QuietEnv
    /\ scanIn = <<>>
    /\ scanOut = [done |-> FALSE, ok |-> FALSE, ids |-> {}]
    /\ calls = <<>>

Next ==
    \/ \E c \in ConfigInputs, ok \in BOOLEAN : update_config(c, ok)
    \/ \E t \in TaskInputs, ok \in BOOLEAN : add_task(t, ok)
    \/ \E t \in TaskInputs, ok \in BOOLEAN : update_task(t, ok)
    \/ \E id \in IdInputs, ok \in BOOLEAN : delete_task(id, ok)
    \/ SchedulerTick
    \/ SchedulerSleep
    \/ \E e \in ExecKeys : ExecScan(e)
    \/ \E e \in ExecKeys : ExecSubmit(e)
    \/ \E e \in ExecKeys : ExecNotify(e)
    \/ \E e \in ExecKeys : ExecReturn(e)

Spec == Init /\ [][Next]_vars

\* Edits while executions are in flight: the file an earlier run left
\* holds a task due at the first tick, or two disabled tasks.
InitEdit ==
    /\ now \in StartTimes
    /\ schedPc = "tick"
    /\ tickNo = 0
    /\ tick = NoTick
    /\ file \in {FileOf(ToJson(AppConfig(<<TaskA1>>, TRUE))),
                 FileOf(ToJson(AppConfig(<<TaskBOff, TaskBOff>>, FALSE)))}
    /\ state = load_config(file)
    /\ cmds = 0
    /\ lastCmd = [name |-> "none", ok |-> FALSE, at |-> 0, anyOk |-> FALSE,
                  okCfg |-> DefaultConfig]
    /\ execs = <<>>
    /\ env = QuietEnv
    /\ scanIn = <<>>
    /\ scanOut = [done |-> FALSE, ok |-> FALSE, ids |-> {}]
    /\ calls = <<>>

NextEdit ==
    \/ \E c \in ConfigInputs, ok \in BOOLEAN : update_config(c, ok)
    \/ \E t \in TaskInputs, ok \in BOOLEAN : update_task(t, ok)
    \/ \E id \in IdInputs, ok \in BOOLEAN : delete_task(id, ok)
    \/ SchedulerTick
    \/ SchedulerSleep
    \/ \E e \in ExecKeys : ExecScan(e)
    \/ \E e \in ExecKeys : ExecSubmit(e)
    \/ \E e \in ExecKeys : ExecNotify(e)
    \/ \E e \in ExecKeys : ExecReturn(e)

SpecEdit == InitEdit /\ [][NextEdit]_vars

\* The executor on its own: two tasks due at the first tick, every answer
\* of the portal and of the notification service possible.
InitExec ==
    /\ now \in StartTimes
    /\ schedPc = "tick"
    /\ tickNo = 0
    /\ tick = NoTick
    /\ file \in {FileOf(ToJson(AppConfig(<<TaskA1, TaskB1>>, TRUE))),
                 FileOf(ToJson(AppConfig(<<TaskA1>>, FALSE)))}
    /\ state = load_config(file)
    /\ cmds = 0
    /\ lastCmd = [name |-> "none", ok |-> FALSE, at |-> 0, anyOk |-> FALSE,
                  okCfg |-> DefaultConfig]
    /\ execs = <<>>
    /\ env = FullEnv
    /\ scanIn = <<>>
    /\ scanOut = [done |-> FALSE, ok |-> FALSE, ids |-> {}]
    /\ calls = <<>>

NextExec ==
    \/ SchedulerTick
    \/ SchedulerSleep
    \/ \E e \in ExecKeys : ExecScan(e)
    \/ \E e \in ExecKeys : ExecSubmit(e)
    \/ \E e \in ExecKeys : ExecNotify(e)
    \/ \E e \in ExecKeys : ExecReturn(e)

SpecExec == InitExec /\ [][NextExec]_vars

\* The scanner on its own, over every page of up to MaxCards top-level
\* blocks built from these markups.
OwnToks ==
    {<<>>, <<Open42>>, <<Gps42>>, <<Pwd7>>, <<GpsOpen>>, <<SignedMark>>,
     <<SignedMark, Open42>>, <<Open42, Gps42>>}
KidSeqs ==
    {<<>>} \cup {<<[toks |-> t]>> : t \in {<<Open42>>, <<Pwd7>>, <<SignedMark>>}}
Cards == {Card(t, k) : t \in OwnToks, k \in KidSeqs}
Pages == UNION {[1..n -> Cards] : n \in 0..MaxCards}

InitScan ==
    /\ now \in StartTimes
    /\ schedPc = "tick"
    /\ tickNo = 0
    /\ tick = NoTick
    /\ file = NoFile
    /\ state = load_config(file)
    /\ cmds = 0
    /\ lastCmd = [name |-> "none", ok |-> FALSE, at |-> 0, anyOk |-> FALSE,
                  okCfg |-> DefaultConfig]
    /\ execs = <<>>
    /\ env = QuietEnv
    /\ scanIn \in Pages
    /\ scanOut = [done |-> FALSE, ok |-> FALSE, ids |-> {}]
    /\ calls = <<>>

\* get_active_tasks on a fetched page
Scan ==
    /\ ~scanOut.done
    /\ LET r == get_active_tasks(PageOf(scanIn))
       IN  scanOut' = [done |-> TRUE, ok |-> r.ok, ids |-> r.ids]
    /\ UNCHANGED <<now, schedPc, tickNo, tick, file, state, cmds, lastCmd,
                   execs, env, scanIn, calls>>

NextScan == Scan

SpecScan == InitScan /\ [][NextScan]_vars

\* A component on its own: nothing scheduled, no call made yet.
InitCall ==
    /\ now \in StartTimes
    /\ schedPc = "tick"
    /\ tickNo = 0
    /\ tick = NoTick
    /\ file = NoFile
    /\ state = load_config(file)
    /\ cmds = 0
    /\ lastCmd = [name |-> "none", ok |-> FALSE, at |-> 0, anyOk |-> FALSE,
                  okCfg |-> DefaultConfig]
    /\ execs = <<>>
    /\ env = QuietEnv
    /\ scanIn = <<>>
    /\ scanOut = [done |-> FALSE, ok |-> FALSE, ids |-> {}]
    /\ calls = <<>>

\* The sign-in submitter on its own: one call of perform_sign or of
\* random_coordinate per behaviour.
TxtWrongPwd == Rep("mi", MaxErrChars + 3)
SignInputs ==
    {Body(TxtOkZh), Body(<<"<", "p", ">">> \o TxtOkZh \o <<"!">>),
     Body(<<" ">> \o TxtSuccess), Body(<<"s", "u", "c", "c", "e", "s", "s">>),
     Body(<<>>), Body(<<" ", "\n">>), Body(TxtExpired), Body(TxtSysErr),
     Body(TxtWrongPwd), Body(Rep("x", MaxErrChars)),
     Body(<<" ">> \o Rep("x", MaxErrChars) \o <<"y">>),
     Body(Rep("x", MaxErrChars - 1) \o <<" ", "y">>),
     Body(Rep("x", MaxErrChars) \o <<"cheng", "gong">>),
     SendErr(TxtSendFail)}

LocInputs ==
    {<<Coord(0), Coord(4)>>, <<Coord(-4), Coord(15)>>,
     <<Coord(399000000), Coord(-1164000005)>>,
     <<Coord(1234560), BadCoord>>}
JitterInputs == {-JitterOffset, -6, 0, 5, JitterOffset - 1}

CallPerformSign ==
    /\ calls = <<>>
    /\ \E x \in SignInputs :
         calls' = <<[fn |-> "perform_sign", in |-> x, out |-> perform_sign(x)]>>
    /\ UNCHANGED <<now, schedPc, tickNo, tick, file, state, cmds, lastCmd,
                   execs, env, scanIn, scanOut>>

CallRandomCoordinate ==
    /\ calls = <<>>
    /\ \E loc \in LocInputs, r_lat, r_lng \in JitterInputs,
          up_lat, up_lng \in BOOLEAN :
         calls' = <<[fn |-> "random_coordinate",
                     in |-> [lat |-> loc[1], lng |-> loc[2]],
                     draws |-> <<r_lat, r_lng>>,
                     out |-> random_coordinate(loc[1], loc[2], r_lat, r_lng,
                                               up_lat, up_lng)]>>
    /\ UNCHANGED <<now, schedPc, tickNo, tick, file, state, cmds, lastCmd,
                   execs, env, scanIn, scanOut>>

NextSign == CallPerformSign \/ CallRandomCoordinate

SpecSign == InitCall /\ [][NextSign]_vars

\* The notifier on its own: up to MaxCalls calls in a row.
SvcNumTok  == [token |-> "num", send |-> "0"]
SvcNoCode  == [token |-> "tok", send |-> "absent"]
SvcStrCode == [token |-> "tok", send |-> "str0"]
SvcInputs ==
    {SvcUp, SvcReject, SvcNoTok, SvcDown, SvcHalf, SvcNumTok, SvcNoCode,
     SvcStrCode}
TitleInputs == {<<"n1", " Check-in Result">>, <<"n1", " Check-in Failed">>}

CallNotify ==
    /\ Len(calls) < MaxCalls
    /\ \E enable \in BOOLEAN, svc \in SvcInputs, title \in TitleInputs :
         calls' = Append(calls,
                         [fn |-> "send_wecom_notification",
                          in |-> [wecom |-> WeComConfig(enable),
                                  title |-> title, svc |-> svc],
                          out |-> send_wecom_notification(WeComConfig(enable),
                                                          svc)])
    /\ UNCHANGED <<now, schedPc, tickNo, tick, file, state, cmds, lastCmd,
                   execs, env, scanIn, scanOut>>

NextNotify == CallNotify

SpecNotify == InitCall /\ [][NextNotify]_vars

\* The login flow on its own: one call of get_qr_code or of check_login
\* (each command builds a fresh AuthHandler).
UrlPlain   == <<<<"x", "1">>>>
UrlSess    == <<<<"sess", "s1">>, <<"tm", "">>>>
UrlFull    == <<<<"sess", "s1">>, <<"tm", "t1">>, <<"sign", "g1">>,
                <<"sess", "s2">>>>
Scripts ==
    {Script(FALSE, <<>>), Script(FALSE, <<UrlFull>>), Script(TRUE, <<>>),
     Script(TRUE, <<UrlPlain>>), Script(TRUE, <<UrlSess>>),
     Script(TRUE, <<UrlPlain, UrlFull>>), Script(TRUE, <<UrlFull>>)}
LoginPages == UNION {[1..n -> Scripts] : n \in 0..MaxScripts}
FetchInputs ==
    {[sent |-> FALSE, page |-> <<>>, cookie |-> ""]}
    \cup {[sent |-> TRUE, page |-> p, cookie |-> "PHPSESSID=p1"] :
              p \in LoginPages}

RedirectUrls ==
    {<<"https://x/y", "?", "foo=bar">>, <<"https://x/y">>,
     <<"https://x/y", "?">>, <<"https://x/y", "?", "a=1", "?", "b=2">>}
StatusInputs == {Absent, JNull, JInt(0), JInt(1), JInt(2), JStr(<<"1">>)}
UrlInputs == {Absent, JNull} \cup {JStr(u) : u \in RedirectUrls}
PollInputs ==
    {[sent |-> FALSE, json |-> FALSE, status |-> Absent, url |-> Absent],
     [sent |-> TRUE, json |-> FALSE, status |-> Absent, url |-> Absent]}
    \cup {[sent |-> TRUE, json |-> TRUE, status |-> st, url |-> u] :
              st \in StatusInputs, u \in UrlInputs}
CompletionInputs ==
    {[sent |-> FALSE, cookie |-> "", class_id |-> ""],
     [sent |-> TRUE, cookie |-> "remember_student=c1", class_id |-> "k1"],
     [sent |-> TRUE, cookie |-> "remember_student=c2", class_id |-> "k2"]}

\* get_login_qr: `jar` is the cookie store of the command's client when
\* the command returns and the client is dropped
CallGetQrCode ==
    /\ calls = <<>>
    /\ \E fetch \in FetchInputs, qrOk \in BOOLEAN :
         calls' = <<[fn |-> "get_qr_code", in |-> fetch,
                     jar |-> AuthHandlerNew.jar
                             \cup (IF fetch.sent THEN {fetch.cookie} ELSE {}),
                     out |-> get_qr_code(fetch, qrOk)]>>
    /\ UNCHANGED <<now, schedPc, tickNo, tick, file, state, cmds, lastCmd,
                   execs, env, scanIn, scanOut>>

\* check_login_status, on its own or polling the QR code a get_login_qr
\* returned: `jar` is the cookie store of the command's client when it
\* issues the poll
CallCheckLogin ==
    /\ \/ calls = <<>>
       \/ Len(calls) = 1 /\ calls[1].fn = "get_qr_code" /\ calls[1].out.ok
    /\ \E poll \in PollInputs, completion \in CompletionInputs :
         calls' = Append(calls,
                         [fn |-> "check_login", in |-> poll,
                          completion |-> completion,
                          jar |-> AuthHandlerNew.jar,
                          out |-> check_login(poll, completion)])
    /\ UNCHANGED <<now, schedPc, tickNo, tick, file, state, cmds, lastCmd,
                   execs, env, scanIn, scanOut>>

NextLogin == CallGetQrCode \/ CallCheckLogin

SpecLogin == InitCall /\ [][NextLogin]_vars

\* ================================================================ claims
SubIds(x) == {x.subs[i].id : i \in DOMAIN x.subs}
HasMarker(msg) == Contains(msg, TxtChucuo) \/ Contains(msg, TxtError)
TitleResult(x) == <<x.task.name, " Check-in Result">>
TitleFailed(x) == <<x.task.name, " Check-in Failed">>
Blocks == SelectedHtml(scanIn)
Occurs(id, html) == \E i \in DOMAIN html : html[i][2] = id

\* C1: at every tick the tasks dispatched are exactly the tasks of the
\* configuration loaded at that tick that are enabled and whose time equals
\* the tick's local HH:MM, each dispatched once and in one execution.
C1_DispatchedExactlyTheDueTasks ==
    tickNo > 0 =>
        /\ tick.dispatched =
               SelectSeq(tick.cfg.tasks,
                         LAMBDA t : t.enable /\ t.time = FormatHM(tick.start))
        /\ \A k \in DOMAIN execs :
               k[1] = tickNo =>
                   /\ k[2] \in DOMAIN tick.dispatched
                   /\ execs[k].task = tick.dispatched[k[2]]

\* C2: a tick that starts after a command returned Ok works on the
\* configuration that command left (tasks and notifier settings): the
\* latest Ok command's result is what the tick loaded and what the tick's
\* executions carry.
C2_TickUsesLatestSavedConfig ==
    (tickNo > 0 /\ tick.seen = cmds /\ lastCmd.anyOk) =>
        /\ tick.cfg = lastCmd.okCfg
        /\ \A k \in DOMAIN execs :
               k[1] = tickNo => execs[k].wecom = lastCmd.okCfg.global.wecom

\* C2 witness: a task added after the first tick is run by the second.
C2_Witness ==
    /\ tickNo = 2
    /\ schedPc = "sleep"
    /\ tick.seen = cmds
    /\ lastCmd.ok
    /\ lastCmd.name = "add_task"
    /\ lastCmd.at = 1
    /\ tick.dispatched # <<>>

\* C3: the loop never waits for an execution: whatever the executions in
\* flight are doing, a due tick can start and a sleeping loop can wake.
C3_LoopNeverWaitsForExecutions ==
    /\ (schedPc = "tick" /\ tickNo < MaxTicks) => ENABLED SchedulerTick
    /\ schedPc = "sleep" => ENABLED SchedulerSleep

\* C3 witness: the second tick has started while an execution of the first
\* has not even scanned yet.
C3_Witness ==
    /\ tickNo = 2
    /\ \E k \in DOMAIN execs : k[1] = 1 /\ execs[k].pc = "start"

\* C4: an execution submits once for every scanned id, whatever the other
\* submissions and notifications did: no id twice, submitted and remaining
\* ids make up the scanned set, and at the end every id has been submitted.
C4_OneSubmissionPerScannedId ==
    \A k \in DOMAIN execs :
        LET x == execs[k]
        IN  /\ \A i, j \in DOMAIN x.subs : x.subs[i].id = x.subs[j].id => i = j
            /\ x.scan = "ok" =>
                   /\ SubIds(x) \cup x.todo = x.ids
                   /\ SubIds(x) \cap x.todo = {}
            /\ (x.pc = "done" /\ x.scan = "ok") =>
                   /\ SubIds(x) = x.ids
                   /\ Len(x.subs) = Cardinality(x.ids)

\* C4 witness: both ids were submitted although the first submission failed
\* in transport and its notification failed too.
C4_Witness ==
    \E k \in DOMAIN execs :
        /\ execs[k].pc = "done"
        /\ Len(execs[k].subs) = 2
        /\ execs[k].subs[1].msg = TxtSendFail
        /\ ~execs[k].notifs[1].ok

\* C5: one notification call follows each submission, failed ones included:
\* the calls made are as many as the submissions whose iteration is over,
\* and a finished execution made as many as it scanned ids.
C5_OneNotificationPerOpportunity ==
    \A k \in DOMAIN execs :
        LET x == execs[k]
        IN  /\ Len(x.notifs) =
                   Len(x.subs) - (IF x.pc = "notify" THEN 1 ELSE 0)
            /\ x.pc = "done" => Len(x.notifs) = Cardinality(x.ids)

\* C5 witness: a finished execution whose submission failed in transport
\* and was notified all the same.
C5_Witness ==
    \E k \in DOMAIN execs :
        /\ execs[k].pc = "done"
        /\ Len(execs[k].notifs) = 1
        /\ execs[k].subs[1].msg = TxtSendFail

\* C6: the title is "<name> Check-in Result" when the submission succeeded
\* or its outcome text has an error marker, "<name> Check-in Failed"
\* otherwise; two opportunities, the first succeeding and the second failing
\* without a marker, give the titles Result, Failed in that order.
C6_TitleFollowsOutcome ==
    \A k \in DOMAIN execs :
        LET x == execs[k]
        IN  /\ \A i \in DOMAIN x.notifs :
                   x.notifs[i].title =
                       IF x.subs[i].ok \/ HasMarker(x.subs[i].msg)
                       THEN TitleResult(x) ELSE TitleFailed(x)
            /\ (/\ x.pc = "done"
                /\ Len(x.subs) = 2
                /\ x.subs[1].ok
                /\ ~x.subs[2].ok
                /\ ~HasMarker(x.subs[2].msg)) =>
                   <<x.notifs[1].title, x.notifs[2].title>> =
                       <<TitleResult(x), TitleFailed(x)>>

\* C6 witness: the run of the scenario, and a marked failure titled Result.
C6_Witness ==
    \E k \in DOMAIN execs :
        LET x == execs[k]
        IN  /\ x.pc = "done"
            /\ Len(x.notifs) = 2
            /\ x.subs[1].ok
            /\ x.subs[2].msg = <<"yi", "guo", "qi">>
            /\ x.notifs[2].title = TitleFailed(x)

\* C7: an execution whose scan failed or found nothing ends without a
\* submission and without a notification, and every other execution can
\* still take its next step.
C7_FailedScanEndsOnlyItsExecution ==
    \A k \in DOMAIN execs :
        LET x == execs[k]
        IN  /\ (x.pc = "done" /\ (x.scan = "err" \/ x.ids = {})) =>
                   (x.subs = <<>> /\ x.notifs = <<>>)
            /\ x.pc # "done" =>
                   ENABLED (ExecScan(k) \/ ExecSubmit(k) \/ ExecNotify(k))

\* C7 witness: of two executions of one tick, one ended on a failed scan
\* and the other ran its submission and notification to the end.
C7_Witness ==
    \E k1, k2 \in DOMAIN execs :
        /\ k1[1] = k2[1]
        /\ k1 # k2
        /\ execs[k1].pc = "done"
        /\ execs[k1].scan = "err"
        /\ execs[k2].pc = "done"
        /\ Len(execs[k2].notifs) >= 1

\* C8: the scheduler loop has no terminating state: whatever fails in a
\* tick, it is at a tick or asleep.
C8_SchedulerNeverStops == schedPc \in {"tick", "sleep"}

\* C9: each tick starts 60 seconds after the previous tick started.
C9_TickStartsEvery60Seconds ==
    tickNo >= 2 => tick.start = tick.prev + SleepSecs

\* C10 (as claimed): no returned id occurs inside a selected block whose
\* markup contains the already-signed marker.
C10_NoReturnedIdInsideSignedBlock ==
    scanOut.done =>
        \A id \in scanOut.ids :
            \A b \in DOMAIN Blocks :
                HasSignedMark(Blocks[b]) => ~Occurs(id, Blocks[b])

\* C10 (amended): the scanner takes no id from a block whose markup contains
\* the already-signed marker: every returned id is matched by one of the
\* three patterns in a selected block whose markup is free of the marker.
C10_IdsComeFromUnsignedBlocks ==
    scanOut.done =>
        \A id \in scanOut.ids :
            \E b \in DOMAIN Blocks :
                ~HasSignedMark(Blocks[b]) /\ id \in Captures(Blocks[b])

\* C10 witness: a signed block holding id 42 yields nothing while an open
\* block yields id 7.
C10_Witness ==
    /\ scanOut.done
    /\ scanOut.ids = {"7"}
    /\ \E b \in DOMAIN Blocks :
           HasSignedMark(Blocks[b]) /\ "42" \in Captures(Blocks[b])

\* C11: for a fetched page the scanner returns Ok with the union, over the
\* selected blocks that do not contain the already-signed marker, of the
\* digit strings matched by punchcard_<digits>, punch_pwd_frm_<digits> and
\* punch_gps(<digits>), each id once; no match gives Ok with the empty set.
PatternMatch(tok) ==
    /\ tok[2] # ""
    /\ \/ tok[1] \in {"punchcard_", "punch_pwd_frm_"}
       \/ tok[1] = "punch_gps(" /\ tok[3] = ")"

UnsignedBlocks ==
    {b \in DOMAIN Blocks : \A i \in DOMAIN Blocks[b] : Blocks[b][i][1] # "yi-qian"}

C11_ResultIsUnionOverUnsignedBlocks ==
    scanOut.done =>
        /\ scanOut.ok
        /\ scanOut.ids =
               UNION {{Blocks[b][i][2] :
                          i \in {n \in DOMAIN Blocks[b] :
                                     PatternMatch(Blocks[b][n])}} :
                      b \in UnsignedBlocks}

\* C11 witness: id 42 is matched by two patterns in one block and again in
\* another block, and is returned once.
C11_Witness ==
    /\ scanOut.done
    /\ scanOut.ids = {"42"}
    /\ Cardinality(scanOut.ids) = 1
    /\ \E b, c \in UnsignedBlocks :
           /\ b # c
           /\ Open42 \in {Blocks[b][i] : i \in DOMAIN Blocks[b]}
           /\ Gps42 \in {Blocks[b][i] : i \in DOMAIN Blocks[b]}
           /\ Gps42 \in {Blocks[c][i] : i \in DOMAIN Blocks[c]}

\* C12: a submission whose response was received is Ok("qian dao cheng
\* gong") exactly when the response text contains "cheng gong" (U+6210
\* U+529F) or "Success"; otherwise it is Err with the first 50 characters of
\* the trimmed text (all of it when shorter), never more than 50 characters.
SignCalls == {i \in DOMAIN calls : calls[i].fn = "perform_sign"}

C12_SubmissionClassification ==
    \A i \in SignCalls :
        LET text == calls[i].in.text
            out == calls[i].out
            marked == Contains(text, <<"cheng", "gong">>)
                      \/ Contains(text, <<"S", "u", "c", "c", "e", "s", "s">>)
            trimmed == Trim(text)
        IN  calls[i].in.sent =>
                /\ out.ok <=> marked
                /\ out.ok => out.msg = <<"qian", "dao", "cheng", "gong">>
                /\ ~out.ok =>
                       /\ Len(out.msg) <= 50
                       /\ Len(out.msg) = IF Len(trimmed) < 50
                                         THEN Len(trimmed) ELSE 50
                       /\ \A k \in 1..Len(out.msg) : out.msg[k] = trimmed[k]

\* C12 witness: the 53-character rejection comes back as an Err of exactly
\* 50 characters.
C12_Witness ==
    \E i \in SignCalls :
        /\ calls[i].in.sent
        /\ Len(calls[i].in.text) = 53
        /\ ~calls[i].out.ok
        /\ Len(calls[i].out.msg) = 50

\* C13 to C15, C20: the calls of the login flow
LoginCalls == {i \in DOMAIN calls : calls[i].fn = "check_login"}
QrCalls == {i \in DOMAIN calls : calls[i].fn = "get_qr_code"}
Polled(i) == calls[i].in.sent /\ calls[i].in.json
StatusIsOne(i) == calls[i].in.status = [kind |-> "int", int |-> 1, str |-> <<>>]
CompletionGets(i) ==
    SelectSeq(calls[i].out.http,
              LAMBDA r : r.url # <<"https://login.b8n.cn/qr/weixin/student/2",
                                   "?", "op=checklogin">>)

HostScripts(page) == {k \in DOMAIN page : page[k].mentions}
HasLoginParam(script) ==
    \E u \in DOMAIN script.urls :
        \E q \in DOMAIN script.urls[u] :
            /\ script.urls[u][q][1] \in {"sess", "tm", "sign"}
            /\ script.urls[u][q][2] # ""

C14_QrNeedsHostScriptAndParams ==
    \A i \in QrCalls :
        LET page == calls[i].in.page
            out == calls[i].out
        IN  calls[i].in.sent =>
                /\ (\/ HostScripts(page) = {}
                    \/ \A k \in HostScripts(page) : ~HasLoginParam(page[k])) =>
                       /\ ~out.ok
                       /\ out.err = "Could not extract QR params"
                       /\ out.image = <<>>
                       /\ out.check = <<>>
                /\ out.ok => \E k \in HostScripts(page) : HasLoginParam(page[k])

\* C15: a completed check_login returns the cookie value the completion GET
\* put in the client's jar, and the course id of that session.
C15_ReturnsSessionFromJar ==
    \A i \in LoginCalls :
        calls[i].out.res = "some" =>
            /\ calls[i].out.session[1] = calls[i].out.jar
            /\ calls[i].out.session[2] = calls[i].completion.class_id

\* C20: with status 1 and a url string, exactly one completion GET is
\* issued, to the uid-login prefix followed by everything after the first
\* '?' of the url.
AfterFirstMark(url) ==
    IF \E k \in DOMAIN url : url[k] = "?"
    THEN SubSeq(url, (CHOOSE k \in DOMAIN url :
                         url[k] = "?" /\ \A j \in 1..(k - 1) : url[j] # "?") + 1,
                Len(url))
    ELSE <<>>

C20_CompletionTargetIsQueryTail ==
    \A i \in LoginCalls :
        (Polled(i) /\ StatusIsOne(i) /\ calls[i].in.url.kind = "str") =>
            /\ Len(CompletionGets(i)) = 1
            /\ CompletionGets(i)[1].url =
                   <<"https://bj.k8n.cn/student/uidlogin", "?">>
                   \o AfterFirstMark(calls[i].in.url.str)

\* C16, C17: the calls of the notifier
NotifyCalls == {i \in DOMAIN calls : calls[i].fn = "send_wecom_notification"}
Requests(i) == {calls[i].out.http[k] : k \in DOMAIN calls[i].out.http}

\* C16: with notifications disabled every call returns Ok and issues no
\* HTTP request, whatever the title and whatever the service would answer.
C16_DisabledNotifierIsSilent ==
    \A i \in NotifyCalls :
        ~calls[i].in.wecom.enable =>
            /\ calls[i].out.ok
            /\ calls[i].out.http = <<>>

\* C16 witness: two disabled calls in a row, with different titles and the
\* service down.
C16_Witness ==
    /\ Len(calls) = 2
    /\ \A i \in NotifyCalls :
           ~calls[i].in.wecom.enable /\ calls[i].in.svc.token = "neterr"
    /\ calls[1].in.title # calls[2].in.title
    /\ calls[2].out.ok

\* C17: with notifications enabled every call starts with its own token
\* GET, posts only after it obtained a token (no POST and an error when the
\* token is missing), and returns Ok exactly when the send response's
\* errcode is 0.
C17_TokenThenSendEveryCall ==
    \A i \in NotifyCalls :
        LET c == calls[i]
            gotToken == c.in.svc.token = "tok"
        IN  c.in.wecom.enable =>
                /\ Len(c.out.http) >= 1
                /\ c.out.http[1] = "GET gettoken"
                /\ Cardinality({k \in DOMAIN c.out.http :
                                   c.out.http[k] = "GET gettoken"}) = 1
                /\ "POST message/send" \in Requests(i) <=> gotToken
                /\ gotToken => c.out.http = <<"GET gettoken", "POST message/send">>
                /\ ~gotToken => ~c.out.ok
                /\ c.out.ok <=> (gotToken /\ c.in.svc.send = "0")

\* C17 witness: a second enabled call, after one that obtained a token and
\* was delivered, fetches a token again and is rejected with errcode 1.
C17_Witness ==
    /\ Len(calls) = 2
    /\ calls[1].in.wecom.enable
    /\ calls[1].out.ok
    /\ calls[2].in.wecom.enable
    /\ calls[2].in.svc = [token |-> "tok", send |-> "1"]
    /\ calls[2].out.http = <<"GET gettoken", "POST message/send">>
    /\ ~calls[2].out.ok

\* C18: after any sequence of configuration commands no two tasks of the
\* configuration have the same id.
C18_TaskIdsAreUnique ==
    \A i, j \in DOMAIN state.tasks :
        state.tasks[i].id = state.tasks[j].id => i = j

\* C19: reading the formatted coordinates back
DigitVal(c) == CHOOSE d \in 0..9 : DigitChar(d) = c

RECURSIVE DigitsVal(_)
DigitsVal(ds) ==
    IF ds = <<>> THEN 0
    ELSE 10 * DigitsVal(SubSeq(ds, 1, Len(ds) - 1)) + DigitVal(ds[Len(ds)])

Unsigned(text) == IF text[1] = "-" THEN Tail(text) ELSE text
DotAt(text) == CHOOSE i \in DOMAIN Unsigned(text) : Unsigned(text)[i] = "."
Decimals(text) == Len(Unsigned(text)) - DotAt(text)

\* the value of a text with 6 decimals, in units of 1e-7 degree
ValueOf(text) ==
    LET u == Unsigned(text)
        v == DigitsVal(SubSeq(u, 1, DotAt(text) - 1)) * 1000000
             + DigitsVal(SubSeq(u, DotAt(text) + 1, Len(u)))
    IN  10 * (IF text[1] = "-" THEN -v ELSE v)

JitterCalls == {i \in DOMAIN calls : calls[i].fn = "random_coordinate"}
Axes(i) ==
    {a \in {<<calls[i].in.lat, calls[i].out[1]>>,
             <<calls[i].in.lng, calls[i].out[2]>>} : a[1].valid}

\* C19 (as claimed): every submitted coordinate has exactly 6 decimals and
\* is within 0.00015 of its base value, whatever the base's decimals.
C19_JitterWithinOffset ==
    \A i \in JitterCalls :
        \A a \in Axes(i) :
            /\ Decimals(a[2]) = 6
            /\ Abs(ValueOf(a[2]) - a[1].v) <= JitterOffset

\* C19 (amended): every submitted coordinate has exactly 6 decimals; it is
\* within 0.00015 of a base value of at most 6 decimals, and within
\* 0.00015 plus the rounding of the format (0.0000005) of any base value.
C19_JitterWithinOffsetAndRounding ==
    \A i \in JitterCalls :
        \A a \in Axes(i) :
            /\ Decimals(a[2]) = 6
            /\ Abs(ValueOf(a[2]) - a[1].v) <= JitterOffset + 5
            /\ a[1].v % 10 = 0 =>
                   Abs(ValueOf(a[2]) - a[1].v) <= JitterOffset

\* C19 witness: the base 0.0000004 with the lowest jitter is submitted as
\* -0.000150, which is 0.0001504 away.
C19_Witness ==
    \E i \in JitterCalls :
        /\ calls[i].in.lng = [valid |-> TRUE, v |-> 4]
        /\ calls[i].out[2] = <<"-", "0", ".", "0", "0", "0", "1", "5", "0">>
        /\ calls[i].out[1] = <<"0", ".", "0", "0", "0", "1", "5", "0">>

\* C21: within an execution the opportunities are processed one after
\* another, each as pacing sleep, jitter draw, submission, notification: at
\* most one submission awaits its notification, the next sleep comes only
\* after the previous notification, and every submission sends the
\* coordinates drawn in its own iteration.
StepOrder == <<"sleep", "jitter", "submit", "notify">>
Iteration(n) == ((n - 1) \div 4) + 1

C21_OpportunitiesStrictlySequential ==
    \A k \in DOMAIN execs :
        LET x == execs[k]
        IN  /\ \A n \in DOMAIN x.log :
                   /\ x.log[n].ev = StepOrder[((n - 1) % 4) + 1]
                   /\ x.log[n].id = x.subs[Iteration(n)].id
                   /\ x.log[n].ev \in {"jitter", "submit"} =>
                          x.log[n].draw = Iteration(n)
            /\ Len(x.subs) - Len(x.notifs) \in {0, 1}
            /\ Len(x.log) = 3 * Len(x.subs) + Len(x.notifs)
            /\ x.pc = "notify" <=> Len(x.subs) - Len(x.notifs) = 1

\* C21 witness: an execution that went through two opportunities; the
\* second submission sent the second draw.
C21_Witness ==
    \E k \in DOMAIN execs :
        /\ execs[k].pc = "done"
        /\ Len(execs[k].log) = 8
        /\ execs[k].log[7] = [ev |-> "submit", id |-> execs[k].subs[2].id,
                               draw |-> 2]
        /\ execs[k].log[8].ev = "notify"

\* C22: an execution works on the snapshot of its dispatching tick: its
\* Task record and its notifier settings are those the tick loaded, and no
\* command and no other execution changes them while it is in flight.
C22_ExecutionKeepsItsSnapshot ==
    /\ [](\A k \in DOMAIN execs :
             k[1] = tickNo =>
                 /\ execs[k].task = tick.dispatched[k[2]]
                 /\ execs[k].wecom = tick.cfg.global.wecom)
    /\ [][\A k \in DOMAIN execs \cap DOMAIN execs' :
              /\ execs'[k].task = execs[k].task
              /\ execs'[k].wecom = execs[k].wecom]_vars

\* C22 witness: after the tick a command replaced or removed the task and
\* switched nothing in the execution, which has submitted and notified with
\* the record it was dispatched with.
C22_Witness ==
    \E k \in DOMAIN execs :
        /\ k[1] = tickNo
        /\ tick.seen = 0
        /\ cmds = 1
        /\ lastCmd.ok
        /\ \A i \in DOMAIN state.tasks : state.tasks[i] # execs[k].task
        /\ state.global.wecom # execs[k].wecom
        /\ execs[k].notifs # <<>>
        /\ execs[k].task = tick.dispatched[k[2]]

\* C23: update_task and delete_task touch the task with the given id only.
\* On Ok, update_task keeps the length of the list and every other task,
\* and delete_task leaves no task with the id and keeps the others in
\* order; when no task has the id both fail and change neither the
\* ConfigState nor the file.
HasId(tasks, id) == \E i \in DOMAIN tasks : tasks[i].id = id

C23_OnlyTheMatchingTaskIsTouched ==
    [][/\ \A t \in TaskInputs, saveOk \in BOOLEAN :
            update_task(t, saveOk) =>
                IF HasId(state.tasks, t.id)
                THEN lastCmd'.ok =>
                         /\ Len(state'.tasks) = Len(state.tasks)
                         /\ \A i \in DOMAIN state.tasks :
                                state.tasks[i].id # t.id =>
                                    state'.tasks[i] = state.tasks[i]
                ELSE ~lastCmd'.ok /\ state' = state /\ file' = file
       /\ \A id \in IdInputs, saveOk \in BOOLEAN :
            delete_task(id, saveOk) =>
                IF HasId(state.tasks, id)
                THEN lastCmd'.ok =>
                         /\ ~HasId(state'.tasks, id)
                         /\ state'.tasks =
                                SelectSeq(state.tasks, LAMBDA x : x.id # id)
                ELSE ~lastCmd'.ok /\ state' = state /\ file' = file
      ]_vars

\* C24: whenever no command is in progress the configuration read from the
\* file equals the ConfigState, also after a command whose save failed.
C24_FileEqualsConfigState == load_config(file) = state

\* C25: no wall-clock minute passes without a tick: consecutive ticks start
\* in the same minute or in consecutive minutes.
C25_EveryMinuteHasATick ==
    tickNo >= 2 => (tick.start \div 60) <= (tick.prev \div 60) + 1

\* C26: the status poll is made in the HTTP session of the get_login_qr
\* call whose QR code it polls: the cookies set when the login page was
\* fetched are in the jar of the client that issues the poll.
C26_PollSharesTheQrSession ==
    \A i \in LoginCalls :
        (i > 1 /\ calls[i - 1].fn = "get_qr_code") =>
            /\ calls[i - 1].jar # {}
            /\ calls[i - 1].jar \subseteq calls[i].jar

====
